---- MODULE Spec2Model ----
(***************************************************************************)
(* A model of the rusted_open 2D framework: the animation engine           *)
(* (animation.rs), the drawable entity (graphics_object.rs), the scene     *)
(* registry with its draw pass (master_graphics_list.rs), the camera       *)
(* (camera.rs), the key states (key_states.rs) and the audio manager       *)
(* (audio_manager.rs).                                                     *)
(*                                                                         *)
(* The module holds several specifications over one set of variables; each *)
(* specification drives one component and leaves the others' variables at  *)
(* their idle values:                                                      *)
(*   SpecAnim    the pure frame-advance functions of animation.rs          *)
(*   SpecEntity  Generic2DGraphicsObject::update_animation                 *)
(*   Spec        draw_all against concurrent users of the entity locks     *)
(*   SpecReg     the registry as an owner of reference-counted entities    *)
(*   SpecPose    set_rotation and rotate_object on one entity              *)
(*   SpecCamera  the camera over a scene of stationary entities            *)
(*   SpecBuild   entity construction and loading                           *)
(*   SpecKeys    the key states across driver ticks                        *)
(*   SpecAudio   the audio queue and the sinks of the audio manager        *)
(***************************************************************************)
EXTENDS Integers, Sequences, FiniteSets, TLC

\* ------------------------------------------------------------------ bounds

\* Largest frame index of a frame range (ranges are start..end, end <= MaxFrame).
MaxFrame == 4
\* Number of entity names; the draw pass runs over one entity per name.
NumNames == 2
\* Number of entity allocations the registry's owner view follows.
MaxObjects == 3
\* Largest coordinate a client moves an entity to.
MaxPos == 1
\* Largest frame_duration and delta_time of update_animation, in ticks of 0.05 s.
MaxDuration == 3
MaxDelta == 5
\* Largest frame_advance handed to the animation functions.
MaxAdvance == 7
\* The modulus of usize arithmetic, scaled down from 2^64; every in-range
\* quantity of the model is far below it, so a wrapped value is recognisable.
UsizeModulus == 4096
\* Largest number of sounds in flight: items in the queue and sinks playing.
MaxInFlight == 3

VARIABLES
    \* --- animation engine (animation.rs)
    animation_config,   \* AnimationConfig: looping, mode, frame_range, frame_duration
    atlas_config,       \* AtlasConfig: current_frame
    overflow_checks,    \* build profile: TRUE = arithmetic overflow panics (debug)
    call,               \* the last call: function, frame_advance, frame on entry,
                        \* returned frame, whether arithmetic wrapped, whether it panicked
    \* --- drawable entity (graphics_object.rs)
    object,             \* the animation fields of a Generic2DGraphicsObject
    update,             \* the last update_animation call: delta_time and the fields on entry
    \* --- scene registry and draw pass (master_graphics_list.rs)
    objects,            \* the registry: name -> registered entity, or NoEntity
    pose,               \* entity -> position, rotation, scale
    model_matrix,       \* entity -> the pose its model matrix was computed from
    ent_lock,           \* entity -> the state of its RwLock
    poisoned,           \* entity -> its RwLock is poisoned
    reg_lock,           \* the state of the registry's RwLock
    render,             \* the thread in draw_all: pc, entities left, current entity
    client,             \* a thread using entity handles and the registry: pc, entity
    steps,              \* entity -> the steps draw_all has run on it in the pass under way
    gpu,                \* the model uniform uploaded for the draw call under way
    \* --- the registry as an owner of entities (master_graphics_list.rs, vbo.rs, vao.rs)
    heap,               \* allocation -> its state, name, position and GPU buffers
    handles,            \* the allocations other holders have an Arc of
    released,           \* the GPU buffers deleted so far
    reg_call,           \* the last registry call: operation, name, entities involved
    \* --- pose mutators (graphics_object.rs, movement.rs)
    pose_call,          \* the last rotation call: function, entity, argument, rotation on entry
    \* --- entity construction (graphics_object.rs)
    build,              \* the last Generic2DGraphicsObject::new: its arrays and what it produced
    \* --- camera (camera.rs)
    camera,             \* Camera: position (x, y, z = zoom), tracking_target, smoothing_factor
    cam_call,           \* the last camera call: function, argument, the camera on entry
    \* --- keyboard (key_states.rs, engine_controller.rs)
    keys,               \* KeyStates.keys: key -> Pressed, Held, Released, or no entry
    tick,               \* the driver tick under way: number, events polled, keys down
    \* --- audio (audio_manager.rs)
    audio,              \* AudioManager: sounds, audio_queue, the sinks of each type
    audio_call          \* the process_audio_queue call under way or just returned

\* The components added to the model after the four above.
moreVars == <<pose_call, build, camera, cam_call, keys, tick, audio, audio_call>>
animVars == <<atlas_config, overflow_checks, call>>
entityVars == <<object, update>>
\* What the draw pass and the registry leave alone.
idleVars == <<animation_config, atlas_config, overflow_checks, call, object, update,
              heap, handles, released, reg_call, moreVars>>
drawVars == <<objects, pose, model_matrix, ent_lock, poisoned, reg_lock, render, client,
              steps, gpu, heap, handles, released, reg_call, moreVars>>
\* What the registry's owner view leaves alone.
passVars == <<animation_config, atlas_config, overflow_checks, call, object, update,
              pose, model_matrix, ent_lock, poisoned, reg_lock, render, client, steps, gpu,
              moreVars>>

vars == <<animation_config, atlas_config, overflow_checks, call, object, update,
          objects, pose, model_matrix, ent_lock, poisoned, reg_lock, render, client,
          steps, gpu, heap, handles, released, reg_call,
          pose_call, build, camera, cam_call, keys, tick, audio, audio_call>>

\* ------------------------------------------------------- idle values

PoseIdle == pose_call = [op |-> "none"]
BuildIdle == build = [done |-> FALSE]
CameraIdle == camera = [tracking_target |-> 0] /\ cam_call = [op |-> "none"]
KeysIdle == keys = <<>> /\ tick = [n |-> 0]
AudioIdle == audio = [audio_queue |-> <<>>] /\ audio_call = [pc |-> "idle"]
MoreIdle == PoseIdle /\ BuildIdle /\ CameraIdle /\ KeysIdle /\ AudioIdle

NoObject == [uses_atlas |-> FALSE]
NoUpdate == [done |-> FALSE]
EntityIdle == object = NoObject /\ update = NoUpdate
RegIdle == heap = <<>> /\ handles = {} /\ released = {} /\ reg_call = [op |-> "none"]
PassIdle ==
    /\ pose = <<>> /\ model_matrix = <<>> /\ ent_lock = <<>>
    /\ poisoned = <<>> /\ reg_lock = "free" /\ render = [pc |-> "idle"]
    /\ client = [pc |-> "idle"] /\ steps = <<>> /\ gpu = [model |-> 0]
DrawIdle ==
    /\ RegIdle
    /\ objects = <<>> /\ pose = <<>> /\ model_matrix = <<>> /\ ent_lock = <<>>
    /\ poisoned = <<>> /\ reg_lock = "free" /\ render = [pc |-> "idle"]
    /\ client = [pc |-> "idle"] /\ steps = <<>> /\ gpu = [model |-> 0]

\* ------------------------------------------------------- animation engine

Modes == {"forward", "backward", "random", "idle"}

FrameRanges == { r \in [start : 0..MaxFrame, end : 0..MaxFrame] : r.end > r.start }

Advances == 0..MaxAdvance

\* usize subtraction: the true difference when it does not underflow; on
\* underflow the build decides (a panic with overflow checks, else wrapping).
USub(a, b) == [val |-> IF a >= b THEN a - b ELSE a - b + UsizeModulus, wrapped |-> a < b]

NoCall == [fn |-> "none", frame_advance |-> 0, entry_frame |-> 0, ret |-> 0,
           wrapped |-> FALSE, panicked |-> FALSE]

\* The outcome of one call: the returned frame, the atlas frame it leaves
\* behind, and whether a usize operation wrapped on the way.
Outcome(ret, frame, wrapped) == [ret |-> ret, current_frame |-> frame, wrapped |-> wrapped]

forward_animation_gt(frame_advance, current_frame, cfg) ==
    LET start == cfg.frame_range.start
        end == cfg.frame_range.end
        new_frame == current_frame + frame_advance
    IN  IF current_frame < start THEN Outcome(start, start, FALSE)
        ELSE IF cfg.looping
             THEN IF new_frame > end
                  THEN Outcome(start + ((new_frame - start) % (end - start)), current_frame, FALSE)
                  ELSE Outcome(new_frame, current_frame, FALSE)
             ELSE IF new_frame >= end
                  THEN Outcome(end - 1, current_frame, FALSE)
                  ELSE Outcome(new_frame, current_frame, FALSE)

forward_animation_clamp_end(frame_advance, current_frame, cfg) ==
    LET start == cfg.frame_range.start
        end == cfg.frame_range.end
        new_frame == current_frame + frame_advance
    IN  IF current_frame < start THEN Outcome(start, start, FALSE)
        ELSE IF cfg.looping
             THEN IF new_frame >= end
                  THEN Outcome(start + ((new_frame - start) % (end - start)), current_frame, FALSE)
                  ELSE Outcome(new_frame, current_frame, FALSE)
             ELSE IF new_frame >= end
                  THEN Outcome(end, current_frame, FALSE)
                  ELSE Outcome(new_frame, current_frame, FALSE)

forward_animation_snap_and_advance(frame_advance, current_frame, cfg) ==
    LET start == cfg.frame_range.start
        end == cfg.frame_range.end
        from == IF current_frame < start THEN start ELSE current_frame
        new_frame == from + frame_advance
    IN  IF cfg.looping
        THEN IF new_frame >= end
             THEN Outcome(start + ((new_frame - start) % (end - start)), from, FALSE)
             ELSE Outcome(new_frame, from, FALSE)
        ELSE IF new_frame >= end
             THEN Outcome(end - 1, from, FALSE)
             ELSE Outcome(new_frame, from, FALSE)

\* animation.rs:3-24
forward_animation(frame_advance, current_frame, cfg) ==
    LET start == cfg.frame_range.start
        end == cfg.frame_range.end
        new_frame == current_frame + frame_advance
    IN  IF current_frame < start THEN Outcome(start, start, FALSE)
        ELSE IF cfg.looping
             THEN IF new_frame >= end
                  THEN Outcome(start + ((new_frame - start) % (end - start)), current_frame, FALSE)
                  ELSE Outcome(new_frame, current_frame, FALSE)
             ELSE IF new_frame >= end
                  THEN Outcome(end - 1, current_frame, FALSE)
                  ELSE Outcome(new_frame, current_frame, FALSE)

backward_animation_snap_at_end(frame_advance, current_frame, cfg) ==
    LET start == cfg.frame_range.start
        end == cfg.frame_range.end
        step == IF current_frame >= frame_advance
                THEN USub(current_frame, frame_advance)
                ELSE USub(end, frame_advance - current_frame)
        new_frame == step.val
    IN  IF current_frame >= end THEN Outcome(end, end, FALSE)
        ELSE IF cfg.looping
             THEN IF new_frame < start
                  THEN Outcome(end - ((start - new_frame) % (end - start)), current_frame, step.wrapped)
                  ELSE Outcome(new_frame, current_frame, step.wrapped)
             ELSE IF new_frame < start
                  THEN Outcome(start, current_frame, step.wrapped)
                  ELSE Outcome(new_frame, current_frame, step.wrapped)

\* animation.rs:27-52
backward_animation(frame_advance, current_frame, cfg) ==
    LET start == cfg.frame_range.start
        end == cfg.frame_range.end
        step == IF current_frame >= frame_advance
                THEN USub(current_frame, frame_advance)
                ELSE USub(end, frame_advance - current_frame)
        new_frame == step.val
    IN  IF current_frame > end THEN Outcome(end, end, FALSE)
        ELSE IF cfg.looping
             THEN IF new_frame < start
                  THEN Outcome(end - ((start - new_frame) % (end - start)), current_frame, step.wrapped)
                  ELSE Outcome(new_frame, current_frame, step.wrapped)
             ELSE IF new_frame < start
                  THEN Outcome(start, current_frame, step.wrapped)
                  ELSE Outcome(new_frame, current_frame, step.wrapped)

random_animation_inclusive(cfg) == cfg.frame_range.start .. cfg.frame_range.end

\* animation.rs:54-58: the frames random_range can return
random_animation(cfg) == cfg.frame_range.start .. (cfg.frame_range.end - 1)

\* A call that returns: the atlas frame and the record of the call.
Returns(fn, frame_advance, out) ==
    /\ atlas_config' = [atlas_config EXCEPT !.current_frame = out.current_frame]
    /\ call' = [fn |-> fn, frame_advance |-> frame_advance,
                entry_frame |-> atlas_config.current_frame, ret |-> out.ret,
                wrapped |-> out.wrapped, panicked |-> FALSE]

\* A call that panics on arithmetic overflow: nothing is returned or stored.
Panics(fn, frame_advance) ==
    /\ atlas_config' = atlas_config
    /\ call' = [fn |-> fn, frame_advance |-> frame_advance,
                entry_frame |-> atlas_config.current_frame, ret |-> call.ret,
                wrapped |-> FALSE, panicked |-> TRUE]

Finish(fn, frame_advance, out) ==
    IF out.wrapped /\ overflow_checks
    THEN Panics(fn, frame_advance)
    ELSE Returns(fn, frame_advance, out)

ForwardAnimation ==
    /\ ~call.panicked
    /\ \E fa \in Advances :
         Finish("forward", fa, forward_animation(fa, atlas_config.current_frame, animation_config))
    /\ UNCHANGED <<animation_config, overflow_checks, entityVars, drawVars>>

BackwardAnimation ==
    /\ ~call.panicked
    /\ \E fa \in Advances :
         Finish("backward", fa, backward_animation(fa, atlas_config.current_frame, animation_config))
    /\ UNCHANGED <<animation_config, overflow_checks, entityVars, drawVars>>

RandomAnimation ==
    /\ ~call.panicked
    /\ \E fa \in Advances, f \in random_animation(animation_config) :
         Returns("random", fa, Outcome(f, atlas_config.current_frame, FALSE))
    /\ UNCHANGED <<animation_config, overflow_checks, entityVars, drawVars>>

InitAnim ==
    /\ animation_config \in [looping : BOOLEAN, mode : {"forward"}, frame_range : FrameRanges,
                             frame_duration : {1}]
    /\ atlas_config \in [current_frame : 0..(MaxFrame + 1)]
    /\ overflow_checks \in BOOLEAN
    /\ call = NoCall
    /\ EntityIdle
    /\ DrawIdle
    /\ MoreIdle

NextAnim == ForwardAnimation \/ BackwardAnimation \/ RandomAnimation

SpecAnim == InitAnim /\ [][NextAnim]_vars

\* The entry frame of the last call lay inside the frame range.
EntryInRange ==
    /\ call.entry_frame >= animation_config.frame_range.start
    /\ call.entry_frame < animation_config.frame_range.end

RetInRange ==
    /\ call.ret >= animation_config.frame_range.start
    /\ call.ret < animation_config.frame_range.end

Max(a, b) == IF a >= b THEN a ELSE b
Min(a, b) == IF a <= b THEN a ELSE b

\* C2: a looping backward step from a frame inside [start, end) returns a
\* frame inside [start, end), and no usize subtraction underflows on the way
\* (neither a panic nor a wrapped value).
C2_BackwardLoopingStaysInRange ==
    (call.fn = "backward" /\ animation_config.looping /\ EntryInRange)
        => (~call.panicked /\ ~call.wrapped /\ RetInRange)

\* C3: a non-looping backward step from a frame inside [start, end) returns
\* max(start, current_frame - frame_advance); in particular a step from start
\* returns start again.
C3_BackwardClampsAtStart ==
    (call.fn = "backward" /\ ~animation_config.looping /\ EntryInRange)
        => /\ ~call.panicked
           /\ call.ret = Max(animation_config.frame_range.start,
                             call.entry_frame - call.frame_advance)

\* C4: a looping forward step from a frame inside [start, end) returns
\* start + (current_frame + frame_advance - start) mod (end - start), a frame
\* inside [start, end).
C4_ForwardLoopingWraps ==
    (call.fn = "forward" /\ animation_config.looping /\ EntryInRange)
        => LET start == animation_config.frame_range.start
               end == animation_config.frame_range.end
           IN  /\ ~call.panicked
               /\ call.ret = start + ((call.entry_frame + call.frame_advance - start) % (end - start))
               /\ RetInRange

\* A looping forward step went past end and came back below its entry frame.
C4_Witness ==
    /\ call.fn = "forward" /\ animation_config.looping /\ EntryInRange
    /\ call.entry_frame + call.frame_advance >= 2 * animation_config.frame_range.end
    /\ animation_config.frame_range.start > 0
    /\ call.ret < call.entry_frame

\* C5: a non-looping forward step from a frame inside [start, end) returns
\* min(current_frame + frame_advance, end - 1): a frame of the range, exactly
\* end - 1 once current_frame + frame_advance >= end, and end - 1 again for
\* every step taken from end - 1.
C5_ForwardClampsAtLast ==
    (call.fn = "forward" /\ ~animation_config.looping /\ EntryInRange)
        => LET end == animation_config.frame_range.end
           IN  /\ ~call.panicked
               /\ call.ret = Min(call.entry_frame + call.frame_advance, end - 1)
               /\ RetInRange
               /\ (call.entry_frame + call.frame_advance >= end => call.ret = end - 1)
               /\ (call.entry_frame = end - 1 => call.ret = end - 1)

\* A non-looping forward step from end - 1 with a positive advance stayed at end - 1.
C5_Witness ==
    /\ call.fn = "forward" /\ ~animation_config.looping /\ EntryInRange
    /\ call.entry_frame = animation_config.frame_range.end - 1
    /\ call.frame_advance > 0
    /\ call.ret = animation_config.frame_range.end - 1

\* C24: forward_animation entered with current_frame < start stores start as
\* the atlas frame and returns start, whatever frame_advance and looping are:
\* the advance is not applied in that call.
C24_ForwardSnapsToStart ==
    (call.fn = "forward" /\ call.entry_frame < animation_config.frame_range.start)
        => /\ ~call.panicked
           /\ call.ret = animation_config.frame_range.start
           /\ atlas_config.current_frame = animation_config.frame_range.start

\* A looping forward call with the largest advance, entered below start,
\* returned start and left the atlas frame at start.
C24_Witness ==
    /\ call.fn = "forward" /\ animation_config.looping
    /\ call.entry_frame < animation_config.frame_range.start
    /\ call.frame_advance = MaxAdvance
    /\ call.ret = animation_config.frame_range.start
    /\ atlas_config.current_frame = call.ret

\* C25: backward_animation entered with current_frame > end stores end as the
\* atlas frame and returns end, whatever frame_advance and looping are; entered
\* with current_frame = end it takes the step instead: the atlas frame is left
\* alone and the result is that of the step from end.
C25_BackwardSnapsToEnd ==
    LET start == animation_config.frame_range.start
        end == animation_config.frame_range.end
        fa == call.frame_advance
        new_frame == IF end >= fa THEN end - fa ELSE end - (fa - end)
    IN  /\ (call.fn = "backward" /\ call.entry_frame > end)
            => /\ ~call.panicked
               /\ call.ret = end
               /\ atlas_config.current_frame = end
        /\ (call.fn = "backward" /\ call.entry_frame = end)
            => /\ atlas_config.current_frame = end
               /\ IF new_frame < 0
                  THEN call.panicked \/ call.wrapped
                  ELSE /\ ~call.panicked /\ ~call.wrapped
                       /\ call.ret = (IF new_frame >= start THEN new_frame
                                      ELSE IF animation_config.looping
                                           THEN end - ((start - new_frame) % (end - start))
                                           ELSE start)

\* A non-looping backward call with a positive advance, entered above end,
\* returned end and left the atlas frame at end.
C25_Witness ==
    /\ call.fn = "backward" /\ ~animation_config.looping
    /\ call.entry_frame > animation_config.frame_range.end
    /\ call.frame_advance > 0
    /\ call.ret = animation_config.frame_range.end
    /\ atlas_config.current_frame = call.ret

\* C26: random_animation returns a frame of [start, end) and leaves the atlas
\* frame alone; and from every state, whatever the atlas frame and the
\* advance of the last call, each frame of [start, end) can be returned.
C26_RandomCoversRange ==
    /\ call.fn = "random"
         => /\ ~call.panicked /\ RetInRange
            /\ atlas_config.current_frame = call.entry_frame
    /\ ~call.panicked
         => \A f \in animation_config.frame_range.start
                       .. (animation_config.frame_range.end - 1) :
               ENABLED (RandomAnimation /\ call'.ret = f)

\* random_animation returned the last frame of a range of more than one frame
\* that does not hold the atlas frame.
C26_Witness ==
    /\ call.fn = "random"
    /\ animation_config.frame_range.end > animation_config.frame_range.start + 1
    /\ call.ret = animation_config.frame_range.end - 1
    /\ call.entry_frame > animation_config.frame_range.end
    /\ call.frame_advance > 0

\* ------------------------------------------------------- drawable entity

AnimIdle ==
    /\ atlas_config = [current_frame |-> 0]
    /\ overflow_checks = FALSE
    /\ call = NoCall

\* graphics_object.rs:271-297: the quad's UV pairs of the current frame, pushed
\* to the texture-coordinate buffer.
update_texture_coords(obj) ==
    LET frame_x == obj.current_frame % obj.atlas_columns
        frame_y == obj.current_frame \div obj.atlas_columns
        u1 == frame_x * obj.frame_width
        v1 == frame_y * obj.frame_height
        u2 == u1 + obj.frame_width
        v2 == v1 + obj.frame_height
        coords == <<u2, v1, u2, v2, u1, v2, u1, v1>>
    IN  [obj EXCEPT !.texture_coords = coords, !.tex_vbo = coords]

\* The accumulated time is kept whole: the residual is never taken.
update_animation_keep_elapsed(obj, delta_time) ==
    IF obj.uses_atlas
    THEN LET elapsed == obj.elapsed_time + delta_time
             timed == IF obj.frame_duration > 0
                      THEN [obj EXCEPT
                              !.current_frame = (obj.current_frame + (elapsed \div obj.frame_duration))
                                                    % obj.num_frames,
                              !.elapsed_time = elapsed]
                      ELSE obj
         IN  [update_texture_coords(timed) EXCEPT !.uniform_frame = timed.current_frame]
    ELSE obj

\* The time is accumulated before the frame duration is looked at.
update_animation_accumulate_first(obj, delta_time) ==
    IF obj.uses_atlas
    THEN LET elapsed == obj.elapsed_time + delta_time
             timed == IF obj.frame_duration > 0
                      THEN [obj EXCEPT
                              !.current_frame = (obj.current_frame + (elapsed \div obj.frame_duration))
                                                    % obj.num_frames,
                              !.elapsed_time = elapsed % obj.frame_duration]
                      ELSE [obj EXCEPT !.elapsed_time = elapsed]
         IN  [update_texture_coords(timed) EXCEPT !.uniform_frame = timed.current_frame]
    ELSE obj

\* graphics_object.rs:246-267. Time is in integer ticks; delta_time >= 0.
update_animation(obj, delta_time) ==
    IF obj.uses_atlas
    THEN LET elapsed == obj.elapsed_time + delta_time
             frame_advance == elapsed \div obj.frame_duration
             timed == IF obj.frame_duration > 0
                      THEN [obj EXCEPT
                              !.current_frame = (obj.current_frame + frame_advance) % obj.num_frames,
                              !.elapsed_time = elapsed % obj.frame_duration]
                      ELSE obj
         IN  [update_texture_coords(timed) EXCEPT !.uniform_frame = timed.current_frame]
    ELSE obj

Deltas == 0..MaxDelta

UpdateAnimation ==
    /\ \E delta_time \in Deltas :
         /\ object' = update_animation(object, delta_time)
         /\ update' = [done |-> TRUE, delta_time |-> delta_time,
                       entry_frame |-> object.current_frame,
                       entry_elapsed |-> object.elapsed_time,
                       entry |-> object]
    /\ UNCHANGED <<animation_config, animVars, drawVars>>

\* Generic2DGraphicsObject::new (graphics_object.rs:61-103): elapsed_time starts
\* at 0, the other animation fields are the caller's. The AnimationConfig that
\* describes the entity is kept beside it: looping over [0, num_frames) with
\* the entity's frame_duration, in any mode.
InitEntity ==
    /\ object \in [uses_atlas : BOOLEAN, current_frame : 0..MaxFrame, num_frames : 1..MaxFrame,
                   frame_duration : 0..MaxDuration, elapsed_time : {0},
                   atlas_columns : 1..2, frame_width : {1}, frame_height : {1},
                   texture_coords : {<<1, 0, 1, 1, 0, 1, 0, 0>>},
                   tex_vbo : {<<1, 0, 1, 1, 0, 1, 0, 0>>},
                   uniform_frame : {0}]
    /\ animation_config \in [looping : {TRUE}, mode : Modes,
                             frame_range : {[start |-> 0, end |-> object.num_frames]},
                             frame_duration : {object.frame_duration}]
    /\ update = NoUpdate
    /\ AnimIdle
    /\ DrawIdle
    /\ MoreIdle

NextEntity == UpdateAnimation

SpecEntity == InitEntity /\ [][NextEntity]_vars

\* The last update_animation call ran on an animated entity and advanced time.
Animated == update.done /\ object.uses_atlas /\ object.frame_duration > 0

\* The frame_advance of the last call: whole frame durations in the time accumulated.
UpdateAdvance == (update.entry_elapsed + update.delta_time) \div object.frame_duration

\* C6: update_animation moves the frame by the rule of the entity's mode:
\* forward by forward_animation, backward by backward_animation, random to a
\* frame of the range, and any other mode leaves current_frame unchanged.
C6_DispatchesOnMode ==
    Animated =>
        CASE animation_config.mode = "forward" ->
                object.current_frame
                    = forward_animation(UpdateAdvance, update.entry_frame, animation_config).ret
          [] animation_config.mode = "backward" ->
                object.current_frame
                    = backward_animation(UpdateAdvance, update.entry_frame, animation_config).ret
          [] animation_config.mode = "random" ->
                object.current_frame \in random_animation(animation_config)
          [] OTHER -> object.current_frame = update.entry_frame

\* C7: on an animated entity looping forward over [0, num_frames) with
\* frame_duration > 0, update_animation(delta_time) advances current_frame by
\* floor((elapsed_time + delta_time) / frame_duration) frames wrapped inside
\* the range and leaves elapsed_time = (elapsed_time + delta_time) mod
\* frame_duration, so 0 <= elapsed_time < frame_duration after every call.
C7_AdvancesByWholeFrames ==
    (Animated /\ animation_config.mode = "forward" /\ animation_config.looping) =>
        LET start == animation_config.frame_range.start
            end == animation_config.frame_range.end
            total == update.entry_elapsed + update.delta_time
        IN  /\ object.current_frame
                 = start + ((update.entry_frame + (total \div object.frame_duration) - start)
                               % (end - start))
            /\ object.current_frame >= start /\ object.current_frame < end
            /\ object.elapsed_time = total % object.frame_duration
            /\ object.elapsed_time >= 0 /\ object.elapsed_time < object.frame_duration

\* The scenario of the specification in ticks of 0.05 s: range [0, 4), frame
\* duration 0.1 s (2 ticks), frame 0, one update of 0.25 s (5 ticks) gives frame
\* 2 and 0.05 s (1 tick) of residual time.
C7_Witness ==
    /\ Animated /\ animation_config.mode = "forward" /\ animation_config.looping
    /\ animation_config.frame_range = [start |-> 0, end |-> 4]
    /\ object.frame_duration = 2
    /\ update.entry_frame = 0 /\ update.entry_elapsed = 0 /\ update.delta_time = 5
    /\ object.current_frame = 2 /\ object.elapsed_time = 1

\* C19: on an atlas entity with frame_duration = 0, update_animation leaves
\* current_frame and elapsed_time as they were, whatever the delta_time and
\* however many calls were made (elapsed_time is still the 0 of construction);
\* on an entity that uses no atlas it changes no field at all.
C19_StaticAtlasNeverAdvances ==
    update.done =>
        /\ (object.uses_atlas /\ object.frame_duration = 0) =>
              /\ object.current_frame = update.entry_frame
              /\ object.elapsed_time = update.entry_elapsed
              /\ object.elapsed_time = 0
        /\ ~object.uses_atlas => object = update.entry

\* An atlas entity with frame_duration = 0 at a frame past the first was
\* updated with a positive delta_time: its texture coordinates were
\* recomputed for the frame it is still on.
C19_Witness ==
    /\ update.done /\ object.uses_atlas /\ object.frame_duration = 0
    /\ update.delta_time > 0
    /\ object.current_frame > 0 /\ object.current_frame = update.entry_frame
    /\ object.texture_coords # update.entry.texture_coords

\* ------------------------------------------------ registry and draw pass

\* Option::None of a registry lookup.
NoEntity == 0
Names == 1..NumNames
\* The entities of the draw pass: entity e reports the name e.
Entities == 1..NumNames
get_name(e) == e

Positions == 0..MaxPos

\* set_position on the pose of an entity; like every mutator it takes &mut self,
\* which only the entity's write guard gives.
set_position(p, position) == [p EXCEPT !.position = position]

\* translation(position) * rotation_z(rotation) * scale(scale), kept as its factors.
update_model_matrix(p) ==
    [translation |-> p.position, rotation_z |-> p.rotation, scaling |-> p.scale]

Identity == [translation |-> 0, rotation_z |-> 0, scaling |-> 1]

\* The pose of an entity as the loader builds it, and no pose at all.
InitialPose == [position |-> 0, rotation |-> 0, scale |-> 1]
NoPose == [position |-> 0, rotation |-> 0, scale |-> 0]

NoSteps == [e \in Entities |-> <<>>]

\* The entity's write guard is dropped before the steps are over.
GuardAfter_dropped_early(step) == "free"

\* The state of the entity's lock after a step of draw_all on it: the write
\* guard taken at the head of the `if let` lives to the end of its block.
GuardAfter(step) == IF step = "draw" THEN "free" ELSE "render_w"

\* draw_all: objects.read(), then the iteration over objects.values().
DrawBegin ==
    /\ render.pc = "idle"
    /\ reg_lock = "free"
    /\ reg_lock' = "render_r"
    /\ render' = [pc |-> "iterate", cur |-> NoEntity, entry |-> NoPose,
                  todo |-> { objects[n] : n \in Names } \ {NoEntity}]
    /\ steps' = NoSteps
    /\ UNCHANGED <<objects, pose, model_matrix, ent_lock, poisoned, client, gpu, idleVars>>

\* The outcome of obj.write() once the lock is free: the guard, or Err on a
\* poisoned lock, which skips the entity.
TakeWrite(e) ==
    IF poisoned[e]
    THEN /\ render' = [render EXCEPT !.pc = "iterate", !.cur = NoEntity, !.todo = @ \ {e}]
         /\ UNCHANGED ent_lock
    ELSE /\ render' = [render EXCEPT !.pc = "update_model_matrix", !.cur = e,
                                     !.entry = pose[e]]
         /\ ent_lock' = [ent_lock EXCEPT ![e] = "render_w"]

\* obj.write() on the next entity: it returns at once when the lock is free,
\* and otherwise the thread waits inside it.
DrawLockEntity ==
    /\ render.pc = "iterate"
    /\ \E e \in render.todo :
         IF ent_lock[e] = "free"
         THEN TakeWrite(e)
         ELSE /\ render' = [render EXCEPT !.pc = "waiting", !.cur = e]
              /\ UNCHANGED ent_lock
    /\ UNCHANGED <<objects, pose, model_matrix, poisoned, reg_lock, client, steps, gpu, idleVars>>

\* The waiting obj.write() returns when the lock is released.
DrawWake ==
    /\ render.pc = "waiting"
    /\ ent_lock[render.cur] = "free"
    /\ TakeWrite(render.cur)
    /\ UNCHANGED <<objects, pose, model_matrix, poisoned, reg_lock, client, steps, gpu, idleVars>>

DrawUpdateModelMatrix ==
    /\ render.pc = "update_model_matrix"
    /\ model_matrix' = [model_matrix EXCEPT ![render.cur] = update_model_matrix(pose[render.cur])]
    /\ steps' = [steps EXCEPT ![render.cur] = Append(@, "update_model_matrix")]
    /\ ent_lock' = [ent_lock EXCEPT ![render.cur] = GuardAfter("update_model_matrix")]
    /\ render' = [render EXCEPT !.pc = "apply_transform"]
    /\ UNCHANGED <<objects, pose, poisoned, reg_lock, client, gpu, idleVars>>

DrawApplyTransform ==
    /\ render.pc = "apply_transform"
    /\ gpu' = [gpu EXCEPT !.model = model_matrix[render.cur]]
    /\ steps' = [steps EXCEPT ![render.cur] = Append(@, "apply_transform")]
    /\ ent_lock' = [ent_lock EXCEPT ![render.cur] = GuardAfter("apply_transform")]
    /\ render' = [render EXCEPT !.pc = "draw"]
    /\ UNCHANGED <<objects, pose, model_matrix, poisoned, reg_lock, client, idleVars>>

\* draw(): the draw call consumes the uniform; every later draw call is
\* preceded by its own upload, so the uniform is not followed past this one.
DrawDraw ==
    /\ render.pc = "draw"
    /\ steps' = [steps EXCEPT ![render.cur] = Append(@, "draw")]
    /\ gpu' = [gpu EXCEPT !.model = Identity]
    /\ ent_lock' = [ent_lock EXCEPT ![render.cur] = GuardAfter("draw")]
    /\ render' = [render EXCEPT !.pc = "iterate", !.cur = NoEntity, !.entry = NoPose,
                                 !.todo = @ \ {render.cur}]
    /\ UNCHANGED <<objects, pose, model_matrix, poisoned, reg_lock, client, idleVars>>

\* The iteration is over: the registry's read guard is dropped.
DrawEnd ==
    /\ render.pc = "iterate"
    /\ render.todo = {}
    /\ render' = [render EXCEPT !.pc = "idle"]
    /\ reg_lock' = "free"
    /\ steps' = NoSteps
    /\ UNCHANGED <<objects, pose, model_matrix, ent_lock, poisoned, client, gpu, idleVars>>

\* A holder of an entity handle calls handle.write().unwrap() ...
ClientRequest ==
    /\ client.pc = "idle"
    /\ \E e \in Entities : client' = [pc |-> "want_write", cur |-> e]
    /\ UNCHANGED <<objects, pose, model_matrix, ent_lock, poisoned, reg_lock, render, steps, gpu, idleVars>>

\* ... which returns the write guard once no other guard is out.
ClientWriteLock ==
    /\ client.pc = "want_write"
    /\ ent_lock[client.cur] = "free"
    /\ ~poisoned[client.cur]
    /\ ent_lock' = [ent_lock EXCEPT ![client.cur] = "client_w"]
    /\ client' = [client EXCEPT !.pc = "holding"]
    /\ UNCHANGED <<objects, pose, model_matrix, poisoned, reg_lock, render, steps, gpu, idleVars>>

\* unwrap() of a poisoned lock panics: the call ends with nothing changed.
ClientPoisonPanic ==
    /\ client.pc \in {"want_write", "add_read"}
    /\ ent_lock[client.cur] = "free"
    /\ poisoned[client.cur]
    /\ client' = [pc |-> "idle", cur |-> NoEntity]
    /\ UNCHANGED <<objects, pose, model_matrix, ent_lock, poisoned, reg_lock, render, steps, gpu, idleVars>>

ClientSetPosition ==
    /\ client.pc = "holding"
    /\ \E position \in Positions :
         pose' = [pose EXCEPT ![client.cur] = set_position(@, position)]
    /\ UNCHANGED <<objects, model_matrix, ent_lock, poisoned, reg_lock, render, client, steps, gpu, idleVars>>

\* The write guard is dropped.
ClientUnlock ==
    /\ client.pc = "holding"
    /\ ent_lock' = [ent_lock EXCEPT ![client.cur] = "free"]
    /\ client' = [pc |-> "idle", cur |-> NoEntity]
    /\ UNCHANGED <<objects, pose, model_matrix, poisoned, reg_lock, render, steps, gpu, idleVars>>

\* The holder panics with the write guard out: the lock is released poisoned.
ClientPanic ==
    /\ client.pc = "holding"
    /\ ent_lock' = [ent_lock EXCEPT ![client.cur] = "free"]
    /\ poisoned' = [poisoned EXCEPT ![client.cur] = TRUE]
    /\ client' = [pc |-> "idle", cur |-> NoEntity]
    /\ UNCHANGED <<objects, pose, model_matrix, reg_lock, render, steps, gpu, idleVars>>

\* add_object(obj) is called ...
ClientAddBegin ==
    /\ client.pc = "idle"
    /\ \E e \in Entities : client' = [pc |-> "add_read", cur |-> e]
    /\ UNCHANGED <<objects, pose, model_matrix, ent_lock, poisoned, reg_lock, render, steps, gpu, idleVars>>

\* ... takes obj.read() for the name ...
ClientAddRead ==
    /\ client.pc = "add_read"
    /\ ent_lock[client.cur] = "free"
    /\ ~poisoned[client.cur]
    /\ ent_lock' = [ent_lock EXCEPT ![client.cur] = "client_r"]
    /\ client' = [client EXCEPT !.pc = "add_write"]
    /\ UNCHANGED <<objects, pose, model_matrix, poisoned, reg_lock, render, steps, gpu, idleVars>>

\* ... then objects.write(), inserts under the name, and drops both guards.
ClientAddInsert ==
    /\ client.pc = "add_write"
    /\ reg_lock = "free"
    /\ objects' = [objects EXCEPT ![get_name(client.cur)] = client.cur]
    /\ ent_lock' = [ent_lock EXCEPT ![client.cur] = "free"]
    /\ client' = [pc |-> "idle", cur |-> NoEntity]
    /\ UNCHANGED <<pose, model_matrix, poisoned, reg_lock, render, steps, gpu, idleVars>>

\* remove_object(name): objects.write(), remove, drop the guard.
ClientRemove ==
    /\ client.pc = "idle"
    /\ reg_lock = "free"
    /\ \E n \in Names : objects' = [objects EXCEPT ![n] = NoEntity]
    /\ UNCHANGED <<pose, model_matrix, ent_lock, poisoned, reg_lock, render, client, steps, gpu, idleVars>>

\* MasterGraphicsList::new with the loader's entities built and not yet added.
Init ==
    /\ objects = [n \in Names |-> NoEntity]
    /\ pose = [e \in Entities |-> InitialPose]
    /\ model_matrix = [e \in Entities |-> Identity]
    /\ ent_lock = [e \in Entities |-> "free"]
    /\ poisoned = [e \in Entities |-> FALSE]
    /\ reg_lock = "free"
    /\ render = [pc |-> "idle", cur |-> NoEntity, entry |-> NoPose, todo |-> {}]
    /\ client = [pc |-> "idle", cur |-> NoEntity]
    /\ steps = NoSteps
    /\ gpu = [model |-> Identity]
    /\ animation_config = [looping |-> FALSE]
    /\ AnimIdle
    /\ EntityIdle
    /\ RegIdle
    /\ MoreIdle

Next ==
    \/ DrawBegin \/ DrawLockEntity \/ DrawWake \/ DrawUpdateModelMatrix
    \/ DrawApplyTransform \/ DrawDraw \/ DrawEnd
    \/ ClientRequest \/ ClientWriteLock \/ ClientPoisonPanic \/ ClientSetPosition
    \/ ClientUnlock \/ ClientPanic
    \/ ClientAddBegin \/ ClientAddRead \/ ClientAddInsert \/ ClientRemove

Spec == Init /\ [][Next]_vars

\* C1: draw_all never waits for an entity's lock: an entity whose lock is held
\* by another thread when draw_all reaches it is skipped for the pass.
C1_DrawNeverWaits == render.pc # "waiting"

\* C8: every entity drawn in a pass went through update animation, update
\* model matrix, apply transform and draw, in that order, in that pass.
C8_AnimateTransformDraw ==
    \A e \in Entities :
        (Len(steps[e]) > 0 /\ steps[e][Len(steps[e])] = "draw") =>
            steps[e] = <<"update_animation", "update_model_matrix", "apply_transform", "draw">>

\* C9: while draw_all is inside its steps on an entity it holds that entity's
\* write lock, no other thread holds a guard of that entity, and the pose is
\* the one found when the lock was taken: the model matrix and the uniform
\* that is drawn are computed from that one pose.
C9_StepsUnderOneWriteGuard ==
    render.pc \in {"update_model_matrix", "apply_transform", "draw"} =>
        /\ ent_lock[render.cur] = "render_w"
        /\ ~(client.pc \in {"holding", "add_write"} /\ client.cur = render.cur)
        /\ pose[render.cur] = render.entry
        /\ (render.pc \in {"apply_transform", "draw"}
                => model_matrix[render.cur] = update_model_matrix(render.entry))
        /\ (render.pc = "draw" => gpu.model = update_model_matrix(render.entry))

\* draw_all is about to draw an entity that a client moved earlier, while the
\* client is waiting for the write lock of that same entity.
C9_Witness ==
    /\ render.pc = "draw"
    /\ client.pc = "want_write" /\ client.cur = render.cur
    /\ pose[render.cur].position = 1
    /\ gpu.model.translation = 1

\* The thread in draw_all is inside obj.write() and the lock is not free.
RenderBlocked == render.pc = "waiting" /\ ent_lock[render.cur] # "free"

\* The client thread is inside a lock call that cannot return: handle.write()
\* or obj.read() on a held entity lock, or objects.write() of add_object on a
\* held registry lock.
ClientBlocked ==
    \/ client.pc \in {"want_write", "add_read"} /\ ent_lock[client.cur] # "free"
    \/ client.pc = "add_write" /\ reg_lock # "free"

\* C21: draw_all and the client thread never wait for each other: no state
\* has the thread in draw_all waiting for an entity lock and the client
\* thread waiting for a lock, each for a lock only the other can release.
C21_NoMutualWait == ~(RenderBlocked /\ ClientBlocked)

\* ------------------------------------------- the registry as an owner

\* The allocations of Arc<RwLock<Generic2DGraphicsObject>>, never reused.
Allocations == 1..MaxObjects

Unborn == [state |-> "unborn"]

Live(h) == { o \in Allocations : h[o].state = "live" }

\* The allocations that an Arc still points to: the registry's values and the
\* handles of other holders.
Referenced(reg, held) == held \cup ({ reg[n] : n \in Names } \ {NoEntity})

\* Dropping the last Arc of an entity drops its Arcs of the vertex array and
\* the buffers; Drop for VBO and VAO deletes them with their last Arc.
\* The heap and the deleted buffers once `reg` and `held` are what is left.
DropUnreferenced(h, reg, held) ==
    LET kept == Live(h) \cap Referenced(reg, held)
        gone == Live(h) \ kept
    IN  [heap |-> [o \in Allocations |-> IF o \in gone
                                          THEN [state |-> "dropped", buffers |-> h[o].buffers]
                                          ELSE h[o]],
         released |-> released \cup
                        { h[o].buffers : o \in { g \in gone :
                                                   \A k \in kept : h[k].buffers # h[g].buffers } }]

Settle(h, reg, held) ==
    LET after == DropUnreferenced(h, reg, held)
    IN  /\ heap' = after.heap
        /\ released' = after.released
        /\ objects' = reg
        /\ handles' = held

NextAllocation ==
    CHOOSE o \in Allocations :
        /\ heap[o].state = "unborn"
        /\ \A u \in Allocations : heap[u].state = "unborn" => o <= u

\* Generic2DGraphicsObject::new wrapped in an Arc: fresh buffers, one holder.
\* Each entity is built at a position of its own, so that a pose tells which
\* construction it comes from.
NewObject ==
    /\ \E u \in Allocations : heap[u].state = "unborn"
    /\ \E n \in Names :
         LET o == NextAllocation
         IN  /\ Settle([heap EXCEPT ![o] = [state |-> "live", name |-> n,
                                            position |-> o, buffers |-> o]],
                       objects, handles \cup {o})
             /\ reg_call' = [before |-> objects, op |-> "new", name |-> n, new |-> o, old |-> NoEntity]
    /\ UNCHANGED passVars

\* Clone for Generic2DGraphicsObject wrapped in a new Arc: the same name and
\* pose, and Arcs of the same vertex array and buffers.
CloneObject ==
    /\ \E u \in Allocations : heap[u].state = "unborn"
    /\ \E src \in handles :
         LET o == NextAllocation
         IN  /\ Settle([heap EXCEPT ![o] = heap[src]], objects, handles \cup {o})
             /\ reg_call' = [before |-> objects, op |-> "clone", name |-> heap[src].name, new |-> o, old |-> src]
    /\ UNCHANGED passVars

\* An add_object that keeps the entity already registered under the name.
add_object_keep_first(reg, name, o) ==
    IF reg[name] # NoEntity THEN reg ELSE [reg EXCEPT ![name] = o]

\* The registry after add_object(obj): the entry of obj's name is obj.
add_object(reg, name, o) == [reg EXCEPT ![name] = o]

\* add_object(obj): the caller hands over its Arc (keep = FALSE) or a clone of
\* it (keep = TRUE); the Arc the entry held before is dropped.
AddObject ==
    /\ \E o \in handles, keep \in BOOLEAN :
         /\ Settle(heap, add_object(objects, heap[o].name, o),
                   IF keep THEN handles ELSE handles \ {o})
         /\ reg_call' = [before |-> objects, op |-> "add", name |-> heap[o].name, new |-> o,
                         old |-> objects[heap[o].name]]
    /\ UNCHANGED passVars

\* get_object(name): a clone of the entry's Arc, or None. The record of the
\* call keeps the entity that the call before it replaced under that name, if
\* that was an add_object which replaced one.
GetObject ==
    /\ \E n \in Names :
         /\ Settle(heap, objects,
                   IF objects[n] = NoEntity THEN handles ELSE handles \cup {objects[n]})
         /\ reg_call' = [before |-> objects, op |-> "get", name |-> n, new |-> objects[n], old |-> objects[n],
                         replaced |-> IF /\ reg_call.op = "add" /\ reg_call.name = n
                                         /\ reg_call.old # reg_call.new
                                      THEN reg_call.old ELSE NoEntity]
    /\ UNCHANGED passVars

\* A holder drops its Arc of an entity.
DropHandle ==
    /\ \E o \in handles :
         /\ Settle(heap, objects, handles \ {o})
         /\ reg_call' = [before |-> objects, op |-> "drop", name |-> NoEntity, new |-> NoEntity, old |-> o]
    /\ UNCHANGED passVars

\* remove_object(name)
RemoveObject ==
    /\ \E n \in Names :
         /\ Settle(heap, [objects EXCEPT ![n] = NoEntity], handles)
         /\ reg_call' = [before |-> objects, op |-> "remove", name |-> n, new |-> NoEntity, old |-> objects[n]]
    /\ UNCHANGED passVars

\* remove_all()
RemoveAll ==
    /\ Settle(heap, [n \in Names |-> NoEntity], handles)
    /\ reg_call' = [before |-> objects, op |-> "remove_all", name |-> NoEntity, new |-> NoEntity, old |-> NoEntity,
                    cleared |-> { objects[n] : n \in Names } \ {NoEntity}]
    /\ UNCHANGED passVars

InitReg ==
    /\ objects = [n \in Names |-> NoEntity]
    /\ heap = [o \in Allocations |-> Unborn]
    /\ handles = {}
    /\ released = {}
    /\ reg_call = [op |-> "none"]
    /\ animation_config = [looping |-> FALSE]
    /\ AnimIdle
    /\ EntityIdle
    /\ PassIdle
    /\ MoreIdle

NextReg ==
    \/ NewObject \/ CloneObject \/ AddObject \/ GetObject
    \/ DropHandle \/ RemoveObject \/ RemoveAll

SpecReg == InitReg /\ [][NextReg]_vars

\* C10: when add_object replaces the entity registered under the same name by
\* another entity, the replaced entity's GPU buffers have been deleted when
\* the call returns.
C10_ReplacedBuffersReleased ==
    (reg_call.op = "add" /\ reg_call.old # NoEntity /\ reg_call.old # reg_call.new)
        => heap[reg_call.old].buffers \in released

\* C11: when remove_all returns the registry is empty and the GPU buffers of
\* every entity it held have been deleted, whatever handles of those entities
\* other holders still have.
C11_RemoveAllReleasesAll ==
    reg_call.op = "remove_all" =>
        /\ \A n \in Names : objects[n] = NoEntity
        /\ \A o \in reg_call.cleared : heap[o].buffers \in released

\* C12: every registry call leaves the name -> entity map as a map should,
\* `before` being the map when the call was made. add_object(e) makes e the
\* entry of e's name, whatever was there, and remove_object(n) makes n absent,
\* both leaving every other name alone; remove_all leaves every name absent;
\* get_object(n) returns the entry of n, or None when n has none, changes no
\* entry, and the entity it returns is the allocation that was added: alive,
\* under its own name. Nothing else changes the map. So get_object(n) returns
\* the entity most recently added under n and not removed since, and None
\* otherwise.
C12_RegistryRoundTrip ==
    LET c == reg_call
    IN  /\ c.op = "add" => /\ objects = [c.before EXCEPT ![c.name] = c.new]
                           /\ c.name = heap[c.new].name
                           /\ c.old = c.before[c.name]
        /\ c.op = "remove" => objects = [c.before EXCEPT ![c.name] = NoEntity]
        /\ c.op = "remove_all" => \A n \in Names : objects[n] = NoEntity
        /\ c.op = "get" =>
              /\ objects = c.before
              /\ c.new = c.before[c.name]
              /\ c.new # NoEntity => /\ heap[c.new].state = "live"
                                     /\ heap[c.new].name = c.name
        /\ c.op \in {"new", "clone", "drop"} => objects = c.before

\* get_object(n) right after an add_object that replaced the entry of n by
\* another entity: it returned the entity just added, which is at another
\* position than the replaced one, still alive in a holder's hands.
C12_Witness ==
    /\ reg_call.op = "get" /\ reg_call.replaced # NoEntity
    /\ reg_call.new # NoEntity /\ reg_call.new # reg_call.replaced
    /\ heap[reg_call.replaced].state = "live"
    /\ heap[reg_call.replaced].name = reg_call.name
    /\ heap[reg_call.replaced].position # heap[reg_call.new].position

\* ------------------------------------------------------- pose mutators

\* Generic2DGraphicsObject::FULL_ROTATION, 2 pi, in units of pi / 4.
FULL_ROTATION == 8

\* Largest angle handed to the constructor and the mutators, in the same units.
MaxAngle == 10
Angles == (0 - MaxAngle)..MaxAngle

\* The entity whose pose the mutators are followed on.
Subject == 1

\* The % of Rust on f32: the remainder of the truncated division, which has
\* the sign of the dividend; on whole units it is exact.
Rem(a, m) == IF a >= 0 THEN a % m ELSE 0 - ((0 - a) % m)

\* The true mathematical modulo, never negative.
Mod(a, m) == a % m

get_rotation(p) == p.rotation

\* A set_rotation that adds its argument to the rotation it finds.
set_rotation_accumulate(p, rotation) ==
    [p EXCEPT !.rotation = Rem(p.rotation + rotation, FULL_ROTATION)]

\* graphics_object.rs:316-318
set_rotation(p, rotation) == [p EXCEPT !.rotation = Rem(rotation, FULL_ROTATION)]

\* movement.rs:15-24
rotate_object(p, angle) ==
    LET current_rotation == get_rotation(p) + angle
    IN  set_rotation(p, current_rotation)

\* The rotation found on entry was stored by set_rotation.
Normalized == pose_call.op # "none"

\* set_rotation(rotation), with any angle or with the entity's own get_rotation().
SetRotation ==
    /\ \E rotation \in Angles \cup {get_rotation(pose[Subject])} :
         /\ pose' = [pose EXCEPT ![Subject] = set_rotation(@, rotation)]
         /\ pose_call' = [op |-> "set_rotation", rotation |-> rotation,
                          entry |-> get_rotation(pose[Subject]), normalized |-> Normalized]
    /\ UNCHANGED <<animation_config, animVars, entityVars, objects, model_matrix, ent_lock,
                   poisoned, reg_lock, render, client, steps, gpu, heap, handles, released,
                   reg_call, build, camera, cam_call, keys, tick, audio, audio_call>>

\* rotate_object(object, angle); the call is recorded with the sum it hands to
\* set_rotation.
RotateObject ==
    /\ \E angle \in Angles :
         /\ pose' = [pose EXCEPT ![Subject] = rotate_object(@, angle)]
         /\ pose_call' = [op |-> "rotate_object",
                          rotation |-> get_rotation(pose[Subject]) + angle,
                          entry |-> get_rotation(pose[Subject]), normalized |-> Normalized]
    /\ UNCHANGED <<animation_config, animVars, entityVars, objects, model_matrix, ent_lock,
                   poisoned, reg_lock, render, client, steps, gpu, heap, handles, released,
                   reg_call, build, camera, cam_call, keys, tick, audio, audio_call>>

\* Generic2DGraphicsObject::new stores the rotation it is given as it is.
InitPose ==
    /\ pose \in [{Subject} -> { [InitialPose EXCEPT !.rotation = r] : r \in Angles }]
    /\ PoseIdle
    /\ objects = <<>> /\ model_matrix = <<>> /\ ent_lock = <<>> /\ poisoned = <<>>
    /\ reg_lock = "free" /\ render = [pc |-> "idle"] /\ client = [pc |-> "idle"]
    /\ steps = <<>> /\ gpu = [model |-> 0]
    /\ animation_config = [looping |-> FALSE]
    /\ AnimIdle /\ EntityIdle /\ RegIdle
    /\ BuildIdle /\ CameraIdle /\ KeysIdle /\ AudioIdle

NextPose == SetRotation \/ RotateObject

SpecPose == InitPose /\ [][NextPose]_vars

\* C13: after every set_rotation and rotate_object call the stored rotation r
\* satisfies 0 <= r < full turn and is the true modulo of the angle that was
\* set, negative angles and negative deltas included.
C13_RotationNonNegative ==
    pose_call.op # "none" =>
        /\ get_rotation(pose[Subject]) >= 0
        /\ get_rotation(pose[Subject]) < FULL_ROTATION
        /\ get_rotation(pose[Subject]) = Mod(pose_call.rotation, FULL_ROTATION)

\* C20: set_rotation called with the get_rotation() that an earlier set_rotation
\* or rotate_object left leaves the rotation as it was.
C20_SetRotationIdempotent ==
    (/\ pose_call.op = "set_rotation" /\ pose_call.normalized
     /\ pose_call.rotation = pose_call.entry)
        => get_rotation(pose[Subject]) = pose_call.entry

\* set_rotation was called with the negative rotation that an earlier call
\* had stored, and left it.
C20_Witness ==
    /\ pose_call.op = "set_rotation" /\ pose_call.normalized
    /\ pose_call.rotation = pose_call.entry
    /\ pose_call.entry < 0
    /\ get_rotation(pose[Subject]) = pose_call.entry

\* ------------------------------------------------------------------ camera

\* The camera's x and y are counted in units of 1 / Scale, so that a bounded
\* number of halvings of a distance is exact.
MaxHalvings == 2
Scale == 2 ^ MaxHalvings

\* Smoothing factors are counted in halves: 0, 0.5, 1, ... up to MaxSmoothing halves.
SmoothingUnit == 2
MaxSmoothing == 2
SmoothingFactors == 0..MaxSmoothing

\* Zoom is counted in tenths; zoom.clamp(0.1, 5.0) of set_zoom.
ZOOM_MIN == 1
ZOOM_MAX == 50
MaxZoom == 100
ZoomArgs == {0 - 10, 20, MaxZoom}

\* Option::None of the tracking target, or a name.
Targets == Names \cup {NoEntity}

\* Where the scene's entities stand: entity e at (5 * e, 5 * e).
TargetPosition(e) == [x |-> 5 * e * Scale, y |-> 5 * e * Scale, z |-> 0]

\* get_object(name): the entry of the name, or None.
get_object(reg, name) == reg[name]

\* The entity update_position follows, or NoEntity: the tracking target when
\* one is set and the registry has it.
Resolved(cam, reg) ==
    IF cam.tracking_target = NoEntity THEN NoEntity ELSE get_object(reg, cam.tracking_target)

\* The step of one coordinate: (target - position) * smoothing_factor.
Smoothed(from, to, smoothing_factor) == ((to - from) * smoothing_factor) \div SmoothingUnit

\* The step is a whole number of units.
Exact(from, to, smoothing_factor) == ((to - from) * smoothing_factor) % SmoothingUnit = 0

\* An update_position that goes back to the origin when it has nothing to follow.
update_position_default(cam, reg, poses) ==
    LET target == Resolved(cam, reg)
    IN  IF target = NoEntity
        THEN [cam EXCEPT !.position.x = 0, !.position.y = 0]
        ELSE LET target_position == poses[target].position
             IN  [cam EXCEPT
                    !.position.x = @ + Smoothed(@, target_position.x, cam.smoothing_factor),
                    !.position.y = @ + Smoothed(@, target_position.y, cam.smoothing_factor)]

\* An update_position that smooths all three components of the position.
update_position_xyz(cam, reg, poses) ==
    LET target == Resolved(cam, reg)
    IN  IF target = NoEntity
        THEN cam
        ELSE LET target_position == poses[target].position
             IN  [cam EXCEPT
                    !.position.x = @ + Smoothed(@, target_position.x, cam.smoothing_factor),
                    !.position.y = @ + Smoothed(@, target_position.y, cam.smoothing_factor),
                    !.position.z = target_position.z]

\* camera.rs:20-30
update_position(cam, reg, poses) ==
    LET target == Resolved(cam, reg)
    IN  IF target = NoEntity
        THEN cam
        ELSE LET target_position == poses[target].position
             IN  [cam EXCEPT
                    !.position.x = @ + Smoothed(@, target_position.x, cam.smoothing_factor),
                    !.position.y = @ + Smoothed(@, target_position.y, cam.smoothing_factor)]

\* camera.rs:32-34
reset_position(cam) == [cam EXCEPT !.position = [x |-> 0, y |-> 0, z |-> 0]]

\* camera.rs:36-38
set_tracking_target(cam, tracking_target) == [cam EXCEPT !.tracking_target = tracking_target]

\* camera.rs:40-42
set_smoothing_factor(cam, smoothing_factor) == [cam EXCEPT !.smoothing_factor = smoothing_factor]

\* f32::clamp
Clamp(v, lo, hi) == IF v < lo THEN lo ELSE IF v > hi THEN hi ELSE v

\* A set_zoom that stores the zoom it is given.
set_zoom_unclamped(cam, zoom) == [cam EXCEPT !.position.z = zoom]

\* camera.rs:49-51
set_zoom(cam, zoom) == [cam EXCEPT !.position.z = Clamp(zoom, ZOOM_MIN, ZOOM_MAX)]

\* camera.rs:53-55
get_zoom(cam) == cam.position.z

\* What a camera call leaves alone.
sceneVars == <<animation_config, animVars, entityVars, pose, model_matrix, ent_lock,
               poisoned, reg_lock, render, client, steps, gpu, heap, handles, released,
               reg_call, pose_call, build, keys, tick, audio, audio_call>>

\* The record of a camera call: the camera it found and the entity it followed.
CamCall(op, arg) ==
    [op |-> op, arg |-> arg, entry |-> camera, target |-> Resolved(camera, objects)]

\* FrameworkController::render: camera.update_position(&master_graphics_list).
CameraUpdatePosition ==
    /\ LET target == Resolved(camera, objects)
       IN  target # NoEntity =>
             /\ Exact(camera.position.x, pose[target].position.x, camera.smoothing_factor)
             /\ Exact(camera.position.y, pose[target].position.y, camera.smoothing_factor)
    /\ camera' = update_position(camera, objects, pose)
    /\ cam_call' = CamCall("update_position", NoEntity)
    /\ UNCHANGED <<objects, sceneVars>>

CameraResetPosition ==
    /\ camera' = reset_position(camera)
    /\ cam_call' = [op |-> "reset_position"]
    /\ UNCHANGED <<objects, sceneVars>>

CameraSetTrackingTarget ==
    /\ \E tracking_target \in Targets :
         /\ camera' = set_tracking_target(camera, tracking_target)
         /\ cam_call' = CamCall("set_tracking_target", tracking_target)
    /\ UNCHANGED <<objects, sceneVars>>

CameraSetSmoothingFactor ==
    /\ \E smoothing_factor \in SmoothingFactors :
         /\ camera' = set_smoothing_factor(camera, smoothing_factor)
         /\ cam_call' = [op |-> "set_smoothing_factor"]
    /\ UNCHANGED <<objects, sceneVars>>

CameraSetZoom ==
    /\ \E zoom \in ZoomArgs :
         /\ camera' = set_zoom(camera, zoom)
         /\ cam_call' = CamCall("set_zoom", zoom)
    /\ UNCHANGED <<objects, sceneVars>>

\* The scene under the camera: add_object of an entity, remove_object of a name.
SceneAdd ==
    /\ \E e \in Entities : objects' = add_object(objects, get_name(e), e)
    /\ cam_call' = [op |-> "none"]
    /\ UNCHANGED <<camera, sceneVars>>

SceneRemove ==
    /\ \E n \in Names : objects' = [objects EXCEPT ![n] = NoEntity]
    /\ cam_call' = [op |-> "none"]
    /\ UNCHANGED <<camera, sceneVars>>

\* Camera::new(smoothing_factor) over an empty registry.
InitCamera ==
    /\ camera \in [position : {[x |-> 0, y |-> 0, z |-> 10]}, tracking_target : {NoEntity},
                   smoothing_factor : SmoothingFactors]
    /\ cam_call = [op |-> "none"]
    /\ objects = [n \in Names |-> NoEntity]
    /\ pose = [e \in Entities |-> [InitialPose EXCEPT !.position = TargetPosition(e)]]
    /\ model_matrix = <<>> /\ ent_lock = <<>> /\ poisoned = <<>>
    /\ reg_lock = "free" /\ render = [pc |-> "idle"] /\ client = [pc |-> "idle"]
    /\ steps = <<>> /\ gpu = [model |-> 0]
    /\ animation_config = [looping |-> FALSE]
    /\ AnimIdle /\ EntityIdle /\ RegIdle
    /\ PoseIdle /\ BuildIdle /\ KeysIdle /\ AudioIdle

NextCamera ==
    \/ CameraUpdatePosition \/ CameraResetPosition \/ CameraSetTrackingTarget
    \/ CameraSetSmoothingFactor \/ CameraSetZoom \/ SceneAdd \/ SceneRemove

SpecCamera == InitCamera /\ [][NextCamera]_vars

Between(from, after, to) ==
    \/ from <= after /\ after <= to
    \/ to <= after /\ after <= from

\* C15: with a resolvable target at t and a smoothing factor s in (0, 1],
\* update_position moves x and y by (t - position) * s each, leaves z alone,
\* and each coordinate ends between where it was and the target: it moves
\* towards the target and never passes it.
C15_SmoothingConverges ==
    (/\ cam_call.op = "update_position" /\ cam_call.target # NoEntity
     /\ cam_call.entry.smoothing_factor > 0
     /\ cam_call.entry.smoothing_factor <= SmoothingUnit)
        => LET was == cam_call.entry.position
               t == pose[cam_call.target].position
               s == cam_call.entry.smoothing_factor
           IN  /\ (camera.position.x - was.x) * SmoothingUnit = (t.x - was.x) * s
               /\ (camera.position.y - was.y) * SmoothingUnit = (t.y - was.y) * s
               /\ camera.position.z = was.z
               /\ Between(was.x, camera.position.x, t.x)
               /\ Between(was.y, camera.position.y, t.y)
               /\ (was.x # t.x => camera.position.x # was.x)

\* The second update of the scenario: smoothing 0.5, target (5, 5), from
\* (2.5, 2.5) to (3.75, 3.75).
C15_Witness ==
    /\ cam_call.op = "update_position" /\ cam_call.target # NoEntity
    /\ cam_call.entry.smoothing_factor * 2 = SmoothingUnit
    /\ pose[cam_call.target].position.x = 5 * Scale
    /\ pose[cam_call.target].position.y = 5 * Scale
    /\ cam_call.entry.position.x * 2 = 5 * Scale
    /\ cam_call.entry.position.y * 2 = 5 * Scale
    /\ camera.position.x * 4 = 15 * Scale
    /\ camera.position.y * 4 = 15 * Scale

\* C16: after set_zoom(z), get_zoom() is z clamped to [0.1, 5.0], and x, y and
\* the tracking target are as they were.
C16_ZoomClamped ==
    cam_call.op = "set_zoom" =>
        /\ get_zoom(camera) = (IF cam_call.arg > ZOOM_MAX THEN ZOOM_MAX
                               ELSE IF cam_call.arg < ZOOM_MIN THEN ZOOM_MIN
                               ELSE cam_call.arg)
        /\ get_zoom(camera) >= ZOOM_MIN /\ get_zoom(camera) <= ZOOM_MAX
        /\ camera.position.x = cam_call.entry.position.x
        /\ camera.position.y = cam_call.entry.position.y
        /\ camera.tracking_target = cam_call.entry.tracking_target

\* set_zoom(10.0) on a camera that tracks an entity, away from the origin:
\* the zoom is 5.0.
C16_Witness ==
    /\ cam_call.op = "set_zoom" /\ cam_call.arg = MaxZoom
    /\ get_zoom(camera) = 50
    /\ camera.tracking_target # NoEntity
    /\ camera.position.x # 0

\* C22: in every state of the camera, after Camera::new and any sequence of
\* its operations, get_zoom() lies in [0.1, 5.0].
C22_ZoomAlwaysInRange ==
    ZOOM_MIN <= get_zoom(camera) /\ get_zoom(camera) <= ZOOM_MAX

\* C23: in every state of the camera the smoothing factor lies in (0, 1]:
\* neither Camera::new nor set_smoothing_factor stores a factor <= 0 or > 1.
C23_SmoothingInUnitInterval ==
    0 < camera.smoothing_factor /\ camera.smoothing_factor <= SmoothingUnit

\* ------------------------------------------------------ entity construction

\* Largest length of a mesh array (vertex_data, texture_coords), in floats.
MaxArray == 4
ArrayLengths == 0..MaxArray

\* graphics_object.rs:61-103, Generic2DGraphicsObject::new and initialize: the
\* entity is built from the two arrays as they come, each uploaded to a buffer
\* of its own; the arrays are given by their lengths. No length is looked at,
\* and the function has no way to return an error.
new(name, vertex_data, texture_coords, uses_atlas) ==
    [result |-> "object", name |-> name,
     vertex_data |-> vertex_data, texture_coords |-> texture_coords,
     position_vbo |-> vertex_data, tex_vbo |-> texture_coords,
     uses_atlas |-> uses_atlas, elapsed_time |-> 0]

\* What entity construction and loading leave alone.
loaderVars == <<animation_config, animVars, entityVars, pose, model_matrix, ent_lock,
                poisoned, reg_lock, render, client, steps, gpu, heap, handles, released,
                reg_call, pose_call, camera, cam_call, keys, tick, audio, audio_call>>

\* The loader builds an entity from a scene description.
NewEntity ==
    /\ \E name \in Names, vertex_data \in ArrayLengths, texture_coords \in ArrayLengths,
          uses_atlas \in BOOLEAN :
         build' = [done |-> TRUE, loaded |-> FALSE,
                   made |-> new(name, vertex_data, texture_coords, uses_atlas)]
    /\ UNCHANGED <<objects, loaderVars>>

\* The loader registers the entity it built: add_object(Arc::new(RwLock::new(object))).
LoadEntity ==
    /\ build.done /\ ~build.loaded
    /\ build.made.result = "object"
    /\ objects' = add_object(objects, build.made.name,
                             CHOOSE e \in Entities : get_name(e) = build.made.name)
    /\ build' = [build EXCEPT !.loaded = TRUE]
    /\ UNCHANGED loaderVars

\* remove_object(name)
UnloadEntity ==
    /\ \E n \in Names : objects' = [objects EXCEPT ![n] = NoEntity]
    /\ UNCHANGED <<build, loaderVars>>

InitBuild ==
    /\ BuildIdle
    /\ objects = [n \in Names |-> NoEntity]
    /\ pose = <<>> /\ model_matrix = <<>> /\ ent_lock = <<>> /\ poisoned = <<>>
    /\ reg_lock = "free" /\ render = [pc |-> "idle"] /\ client = [pc |-> "idle"]
    /\ steps = <<>> /\ gpu = [model |-> 0]
    /\ animation_config = [looping |-> FALSE]
    /\ AnimIdle /\ EntityIdle /\ RegIdle
    /\ PoseIdle /\ CameraIdle /\ KeysIdle /\ AudioIdle

NextBuild == NewEntity \/ LoadEntity \/ UnloadEntity

SpecBuild == InitBuild /\ [][NextBuild]_vars

\* C17: a construction from a vertex array and a UV array of different lengths
\* ends in the error InvalidMeshData: it produces no entity, and nothing of it
\* is registered.
C17_MismatchedMeshRejected ==
    (build.done /\ build.made.vertex_data # build.made.texture_coords)
        => /\ build.made.result = "InvalidMeshData"
           /\ ~build.loaded

\* ---------------------------------------------------------------- keyboard

\* Number of keys followed, and the most key events one poll delivers.
NumKeys == 3
MaxEvents == 2
Keys == 1..NumKeys

\* glfw::Action
Actions == {"Press", "Release", "Repeat"}

\* KeyStates::new: no key has an entry.
NoKeys == [k \in Keys |-> "None"]

\* key_states.rs:24-35
update_pressed_to_held(ks) == [k \in Keys |-> IF ks[k] = "Pressed" THEN "Held" ELSE ks[k]]

\* key_states.rs:38-52
handle_key_event(ks, event) ==
    CASE event.action = "Press" -> [ks EXCEPT ![event.key] = "Pressed"]
      [] event.action = "Release" -> [ks EXCEPT ![event.key] = "Released"]
      [] OTHER -> ks

\* key_states.rs:55-60
is_key_pressed(ks, key) == ks[key] = "Pressed"

\* key_states.rs:63-68
is_key_pressed_raw(ks, key) == ks[key] \in {"Pressed", "Held"}

\* The keys that are down after an event, of those that were down before it.
DownAfter(down, event) ==
    CASE event.action = "Press" -> down \cup {event.key}
      [] event.action = "Release" -> down \ {event.key}
      [] OTHER -> down

\* An event the keyboard can send with these keys down: a key that is up is
\* pressed, a key that is down repeats or is released.
Possible(down, event) == (event.action = "Press") <=> (event.key \notin down)

\* The event queues one poll can deliver with these keys down.
RECURSIVE EventQueues(_, _)
EventQueues(down, n) ==
    IF n = 0 THEN {<<>>}
    ELSE {<<>>} \cup
         UNION { { <<ev>> \o rest : rest \in EventQueues(DownAfter(down, ev), n - 1) } :
                 ev \in { e \in [key : Keys, action : Actions] : Possible(down, e) } }

\* execute_tick's loop over glfw::flush_messages: handle_key_event on each
\* event in turn.
RECURSIVE HandleAll(_, _)
HandleAll(ks, events) ==
    IF events = <<>> THEN ks
    ELSE HandleAll(handle_key_event(ks, Head(events)), Tail(events))

RECURSIVE DownAfterAll(_, _)
DownAfterAll(down, events) ==
    IF events = <<>> THEN down
    ELSE DownAfterAll(DownAfter(down, Head(events)), Tail(events))

\* The keys whose Press is among the events.
PressedIn(events) ==
    { events[i].key : i \in { j \in 1..Len(events) : events[j].action = "Press" } }

\* What the keyboard leaves alone.
inputVars == <<animation_config, animVars, entityVars, objects, pose, model_matrix,
               ent_lock, poisoned, reg_lock, render, client, steps, gpu, heap, handles,
               released, reg_call, pose_call, build, camera, cam_call,
               audio, audio_call>>

\* engine_controller.rs:72-105, execute_tick: poll the events, hand each to
\* handle_key_event, draw. The tick is recorded with the keys whose Press it
\* delivered and the keys that are down at its end.
ExecuteTick ==
    /\ \E events \in EventQueues(tick.down, MaxEvents) :
         /\ keys' = HandleAll(keys, events)
         /\ tick' = [ticked |-> TRUE, pressed |-> PressedIn(events),
                     down |-> DownAfterAll(tick.down, events)]
    /\ UNCHANGED inputVars

\* A caller of KeyStates::update_pressed_to_held; no tick of the driver is one.
UpdatePressedToHeld ==
    /\ keys' = update_pressed_to_held(keys)
    /\ UNCHANGED <<tick, inputVars>>

\* KeyStates::new, before the first tick, with no key down.
InitKeys ==
    /\ keys = NoKeys
    /\ tick = [ticked |-> FALSE, pressed |-> {}, down |-> {}]
    /\ objects = <<>> /\ pose = <<>> /\ model_matrix = <<>> /\ ent_lock = <<>>
    /\ poisoned = <<>> /\ reg_lock = "free" /\ render = [pc |-> "idle"]
    /\ client = [pc |-> "idle"] /\ steps = <<>> /\ gpu = [model |-> 0]
    /\ animation_config = [looping |-> FALSE]
    /\ AnimIdle /\ EntityIdle /\ RegIdle
    /\ PoseIdle /\ BuildIdle /\ CameraIdle /\ AudioIdle

NextKeys == ExecuteTick \/ UpdatePressedToHeld

SpecKeys == InitKeys /\ [][NextKeys]_vars

\* C18: at the end of a tick is_key_pressed(k) holds only if the Press of k
\* arrived in that tick, so not on the later ticks through which k stays down;
\* is_key_pressed_raw(k) holds exactly when k is down, from its Press to its
\* Release; and is_key_pressed(k) implies is_key_pressed_raw(k).
C18_EdgeAndLevelQueries ==
    \A k \in Keys :
        /\ is_key_pressed(keys, k) => k \in tick.pressed
        /\ is_key_pressed_raw(keys, k) <=> k \in tick.down
        /\ is_key_pressed(keys, k) => is_key_pressed_raw(keys, k)

\* ------------------------------------------------------------------- audio

\* AudioManager::new: 2 music sinks, 16 sound sinks, 4 UI sinks.
NumMusicSinks == 2
NumSoundSinks == 16
NumUiSinks == 4

\* The names sounds are loaded and queued under.
SoundNames == {"click", "theme"}
AudioTypes == {"Music", "Sound", "UI"}

\* What the sounds map holds for a name: nothing, or the bytes of a file,
\* which the decoder accepts or not. load_sound stores any file it can read.
NotLoaded == "absent"
SoundData == {"decodable", "undecodable"}

\* The AudioQueueItems callers enqueue: music is looped, sounds and UI sounds
\* are played once. The volume is set on the sink and read by nothing here.
AudioQueueItems ==
    { item \in [name : SoundNames, audio_type : AudioTypes, looped : BOOLEAN] :
        item.looped <=> item.audio_type = "Music" }

NumSinks(audio_type) ==
    CASE audio_type = "Music" -> NumMusicSinks
      [] audio_type = "Sound" -> NumSoundSinks
      [] audio_type = "UI" -> NumUiSinks

\* The sinks that play: those whose source has not run out.
Busy(am) == { s \in [audio_type : AudioTypes, i : 1..NumSoundSinks] :
                 /\ s.i <= NumSinks(s.audio_type)
                 /\ am.sinks[s.audio_type][s.i] # "empty" }

\* audio_manager.rs:80-82: iter().find(|s| s.empty()), 0 for None.
find_empty(am, audio_type) ==
    LET empty == { i \in 1..NumSinks(audio_type) : am.sinks[audio_type][i] = "empty" }
    IN  IF empty = {} THEN 0 ELSE CHOOSE i \in empty : \A j \in empty : i <= j

\* audio_manager.rs:51-59
enqueue_audio(am, item) == [am EXCEPT !.audio_queue = Append(@, item)]

\* audio_manager.rs:124-137, the file at the path being readable
load_sound(am, name, data) ==
    IF am.sounds[name] # NotLoaded THEN am ELSE [am EXCEPT !.sounds[name] = data]

play_sound_fails_when_full(am, item) ==
    IF am.sounds[item.name] = NotLoaded
    THEN [result |-> "Sound not found", audio |-> am, sink |-> 0]
    ELSE IF am.sounds[item.name] = "undecodable"
    THEN [result |-> "Failed to decode audio", audio |-> am, sink |-> 0]
    ELSE LET sink == find_empty(am, item.audio_type)
         IN  IF sink = 0
             THEN [result |-> "No sink available", audio |-> am, sink |-> 0]
             ELSE [result |-> "Ok",
                   audio |-> [am EXCEPT !.sinks[item.audio_type][sink] =
                                            IF item.looped THEN "looped" ELSE "once"],
                   sink |-> sink]

\* audio_manager.rs:73-97: the result, the manager after the call, the sink
\* the source was appended to (0 for none).
play_sound(am, item) ==
    IF am.sounds[item.name] = NotLoaded
    THEN [result |-> "Sound not found", audio |-> am, sink |-> 0]
    ELSE IF am.sounds[item.name] = "undecodable"
    THEN [result |-> "Failed to decode audio", audio |-> am, sink |-> 0]
    ELSE LET sink == find_empty(am, item.audio_type)
         IN  IF sink = 0
             THEN [result |-> "Ok", audio |-> am, sink |-> 0]
             ELSE [result |-> "Ok",
                   audio |-> [am EXCEPT !.sinks[item.audio_type][sink] =
                                            IF item.looped THEN "looped" ELSE "once"],
                   sink |-> sink]

\* audio_manager.rs:105-121: stop() on every sink of one type.
stop_sinks(am, audio_type) ==
    [am EXCEPT !.sinks[audio_type] = [i \in 1..NumSinks(audio_type) |-> "empty"]]

\* What the audio manager leaves alone.
soundVars == <<animation_config, animVars, entityVars, objects, pose, model_matrix,
               ent_lock, poisoned, reg_lock, render, client, steps, gpu, heap, handles,
               released, reg_call, pose_call, build, camera, cam_call, keys, tick>>

\* The record of a process_audio_queue call is kept until the next operation
\* of a caller; while the call runs, other threads leave it alone.
Forget == IF audio_call.pc = "processing" THEN audio_call ELSE [pc |-> "idle"]

\* enqueue_audio takes the queue's write lock, which process_audio_queue
\* holds from its first line to its return.
EnqueueAudio ==
    /\ audio_call.pc # "processing"
    /\ Len(audio.audio_queue) + Cardinality(Busy(audio)) < MaxInFlight
    /\ \E item \in AudioQueueItems : audio' = enqueue_audio(audio, item)
    /\ audio_call' = Forget
    /\ UNCHANGED soundVars

LoadSound ==
    /\ \E name \in SoundNames, data \in SoundData : audio' = load_sound(audio, name, data)
    /\ audio_call' = Forget
    /\ UNCHANGED soundVars

\* audio_manager.rs:63: the queue's write lock is taken.
ProcessBegin ==
    /\ audio_call.pc # "processing"
    /\ audio_call' = [pc |-> "processing", entry_queue |-> audio.audio_queue,
                      handled |-> <<>>]
    /\ UNCHANGED <<audio, soundVars>>

\* audio_manager.rs:65-67: one turn of the loop, pop_front and play_sound;
\* an Err leaves the function through the ? operator.
ProcessItem ==
    /\ audio_call.pc = "processing"
    /\ audio.audio_queue # <<>>
    /\ LET item == Head(audio.audio_queue)
           popped == [audio EXCEPT !.audio_queue = Tail(@)]
           played == play_sound(popped, item)
       IN  /\ audio' = played.audio
           /\ audio_call' =
                 IF played.result = "Ok"
                 THEN [audio_call EXCEPT !.handled =
                          Append(@, [item |-> item, sink |-> played.sink,
                                     full |-> find_empty(popped, item.audio_type) = 0])]
                 ELSE [pc |-> "returned", result |-> played.result,
                       entry_queue |-> audio_call.entry_queue,
                       handled |-> audio_call.handled, failed |-> item]
    /\ UNCHANGED soundVars

\* audio_manager.rs:65, 69: pop_front yields None, the function returns Ok(()).
ProcessEnd ==
    /\ audio_call.pc = "processing"
    /\ audio.audio_queue = <<>>
    /\ audio_call' = [pc |-> "returned", result |-> "Ok",
                      entry_queue |-> audio_call.entry_queue,
                      handled |-> audio_call.handled]
    /\ UNCHANGED <<audio, soundVars>>

\* The source of a sink that is not looped runs out, in the audio thread.
SinkFinishes ==
    /\ \E s \in Busy(audio) :
         /\ audio.sinks[s.audio_type][s.i] = "once"
         /\ audio' = [audio EXCEPT !.sinks[s.audio_type][s.i] = "empty"]
    /\ audio_call' = Forget
    /\ UNCHANGED soundVars

\* stop_music_sinks, stop_sound_sinks, stop_ui_sinks.
StopSinks ==
    /\ \E audio_type \in AudioTypes : audio' = stop_sinks(audio, audio_type)
    /\ audio_call' = Forget
    /\ UNCHANGED soundVars

\* AudioManager::new
InitAudio ==
    /\ audio = [sounds |-> [name \in SoundNames |-> NotLoaded],
                audio_queue |-> <<>>,
                sinks |-> [t \in AudioTypes |-> [i \in 1..NumSinks(t) |-> "empty"]]]
    /\ audio_call = [pc |-> "idle"]
    /\ objects = <<>> /\ pose = <<>> /\ model_matrix = <<>> /\ ent_lock = <<>>
    /\ poisoned = <<>> /\ reg_lock = "free" /\ render = [pc |-> "idle"]
    /\ client = [pc |-> "idle"] /\ steps = <<>> /\ gpu = [model |-> 0]
    /\ animation_config = [looping |-> FALSE]
    /\ AnimIdle /\ EntityIdle /\ RegIdle
    /\ PoseIdle /\ BuildIdle /\ CameraIdle /\ KeysIdle

NextAudio ==
    \/ EnqueueAudio \/ LoadSound \/ ProcessBegin \/ ProcessItem \/ ProcessEnd
    \/ SinkFinishes \/ StopSinks

SpecAudio == InitAudio /\ [][NextAudio]_vars

\* The items of the handled entries, in the order they were handled.
HandledItems == [i \in 1..Len(audio_call.handled) |-> audio_call.handled[i].item]

====
